---- MODULE Spec2Model ----
(***************************************************************************)
(* Credential lifecycle of the Outlook MCP server: the token manager       *)
(* (src/auth/token-manager.js) as a state machine.  The module state is    *)
(* the in-memory cache slot, the two in-flight promise guards, the         *)
(* last-error slot and the token file; every exported async function is    *)
(* a process that is suspended at each of its awaits (file read, file      *)
(* write, unlink, HTTPS request) and resumed by the completion of that     *)
(* I/O.  A disk operation takes effect on the file at one step and its     *)
(* completion callback runs at a later one.                                *)
(***************************************************************************)
EXTENDS Integers, FiniteSets, Sequences, TLC

(***************************************************************************)
(* Bounds of the model.                                                    *)
(***************************************************************************)
\* number of calls that can be in flight at the same time
NumProcs == 2
\* total number of calls of exported functions in one behaviour
MaxCalls == 2
\* number of times the clock advances
MaxTicks == 1

Procs == 1..NumProcs

(***************************************************************************)
(* JavaScript values.  Every value is a record, so that values of          *)
(* different kinds can be compared: a string is [str |-> s], a number      *)
(* [num |-> n]; undefined, null and NaN are three distinct constants.  An  *)
(* object parsed from or written to the token file has the four fields     *)
(* the token manager reads (an absent field is Undefined).                 *)
(***************************************************************************)
Undefined == [undefined |-> TRUE]
Null == [null |-> TRUE]
NaN == [nan |-> TRUE]
Str(s) == [str |-> s]
Num(n) == [num |-> n]

IsStr(v) == DOMAIN v = {"str"}
IsNum(v) == DOMAIN v = {"num"}
IsObject(v) == "access_token" \in DOMAIN v

\* !v is false: JavaScript truthiness
Truthy(v) ==
    IF IsObject(v) THEN TRUE
    ELSE IF IsStr(v) THEN v.str # ""
    ELSE IF IsNum(v) THEN v.num # 0
    ELSE FALSE

TokenObject(at, rt, ein, eat) ==
    [access_token |-> at, refresh_token |-> rt, expires_in |-> ein, expires_at |-> eat]

\* v?.field and v.field of a value that is not null or undefined
Field(v, f) == IF IsObject(v) THEN v[f] ELSE Undefined

\* a * 1000 and a + b on JavaScript numbers: anything that is not a number gives NaN
Times1000(v) == IF IsNum(v) THEN Num(v.num * 1000) ELSE NaN
Plus(a, b) == IF IsNum(a) /\ IsNum(b) THEN Num(a.num + b.num) ELSE NaN

TOKEN_REFRESH_BUFFER_MS == 20 * 60 * 1000

(***************************************************************************)
(* The token file.  It is absent, present but unreadable, or holds a text  *)
(* that is either not JSON or the JSON of some value.                      *)
(***************************************************************************)
FileAbsent == [fs |-> "ENOENT"]
FileUnreadable == [fs |-> "EACCES"]
FileInvalidJson == [text |-> "invalid json {"]
FileJson(v) == [json |-> v]

IsReadError(content) == "fs" \in DOMAIN content
IsJson(content) == "json" \in DOMAIN content

\* JSON.stringify(tokens, null, 2): an undefined field is left out, NaN is written as null
JsonValue(v) == IF v = NaN THEN Null ELSE v
Stringify(tokens) ==
    FileJson(IF IsObject(tokens)
             THEN [f \in DOMAIN tokens |-> JsonValue(tokens[f])]
             ELSE JsonValue(tokens))

\* JSON.parse(data) of a text that is JSON
Parse(content) == content.json

(***************************************************************************)
(* Inputs drawn by the environment.                                        *)
(***************************************************************************)
AccessNames == <<"a1", "a2", "a3", "a4", "a5", "a6">>
RefreshNames == <<"r1", "r2", "r3", "r4", "r5", "r6">>

\* the objects a token file found at start-up can hold: with and without
\* access_token and refresh_token, and with an expires_at that is inside
\* the refresh buffer at time 0 (at its boundary) or one millisecond outside
InitialObjects ==
    {TokenObject(Undefined, Str("r0"), Undefined, Undefined),
     TokenObject(Str("a0"), Undefined, Undefined, Num(TOKEN_REFRESH_BUFFER_MS)),
     TokenObject(Str("a0"), Str("r0"), Undefined, Num(TOKEN_REFRESH_BUFFER_MS)),
     TokenObject(Str("a0"), Str("r0"), Undefined, Num(TOKEN_REFRESH_BUFFER_MS + 1))}

InitialFiles ==
    {FileAbsent, FileUnreadable, FileInvalidJson, FileJson(Num(5))}
        \cup {FileJson(o) : o \in InitialObjects}

\* expires_in (seconds) of a token response: the length of the refresh
\* buffer (the record is stale as soon as it is built) and twice that
ShortLife == Num(TOKEN_REFRESH_BUFFER_MS \div 1000)
LongLife == Num(2 * (TOKEN_REFRESH_BUFFER_MS \div 1000))

VARIABLES
    configured,       \* config.AUTH_CONFIG.clientId && clientSecret are set
    file,             \* content of the token file
    cachedTokens,     \* let cachedTokens
    _loadPromise,     \* let _loadPromise: {} (null) or {owner of the in-flight load}
    _refreshPromise,  \* let _refreshPromise: {} (null) or {owner of the promise}
    lastErrorReason,  \* let lastErrorReason
    now,              \* Date.now()
    issued,           \* number of token responses the provider has produced
    calls,            \* number of calls started
    pc,               \* position of each call
    op,               \* the exported function each call runs
    ld,               \* state of the loadTokens() promise the call awaits
    att,              \* the in-flight promise the call attached to
    loaded,           \* const tokens = await loadTokens()
    buf,              \* outcome of the call's disk operation in flight
    refreshToken,     \* let refreshToken
    newTokens,        \* the record handed to saveTokens
    respBody,         \* the parsed 2xx response body, as received
    respAt,           \* Date.now() when the response was handled
    outcome,          \* "pending", "resolved" or "rejected"
    result,           \* the value resolved with, or the message rejected with
    posted,           \* token-endpoint requests the call has issued
    overlap,          \* calls that were in flight when the call started
    cold,             \* the cache was empty when the call started
    alone,            \* no other call has been in flight since the call started
    arg,              \* the argument the call was given
    answer,           \* what the token endpoint answered to the call's request
    written,          \* the record whose text the last write put in the file
    reply             \* what the wrapper around the call (ensureAuthenticated, a route) gave back

globals == <<configured, file, cachedTokens, _loadPromise, _refreshPromise,
             lastErrorReason, now, issued>>
locals == <<pc, op, ld, att, loaded, buf, refreshToken, newTokens, respBody,
            respAt, outcome, result>>
counters == <<calls, posted, overlap, cold, alone>>
history == <<counters, arg, answer, written, reply>>
vars == <<globals, locals, history>>

Init ==
    /\ configured \in BOOLEAN
    /\ file \in InitialFiles
    /\ cachedTokens = Null
    /\ _loadPromise = {}
    /\ _refreshPromise = {}
    /\ lastErrorReason = Null
    /\ now = 0
    /\ issued = 0
    /\ calls = 0
    /\ pc = [p \in Procs |-> "idle"]
    /\ op = [p \in Procs |-> "none"]
    /\ ld = [p \in Procs |-> "none"]
    /\ att = [p \in Procs |-> {}]
    /\ loaded = [p \in Procs |-> Undefined]
    /\ buf = [p \in Procs |-> Undefined]
    /\ refreshToken = [p \in Procs |-> Undefined]
    /\ newTokens = [p \in Procs |-> Undefined]
    /\ respBody = [p \in Procs |-> Undefined]
    /\ respAt = [p \in Procs |-> 0]
    /\ outcome = [p \in Procs |-> "pending"]
    /\ result = [p \in Procs |-> Undefined]
    /\ posted = [p \in Procs |-> 0]
    /\ overlap = [p \in Procs |-> {}]
    /\ cold = [p \in Procs |-> FALSE]
    /\ alone = [p \in Procs |-> FALSE]
    /\ arg = [p \in Procs |-> Undefined]
    /\ answer = [p \in Procs |-> Undefined]
    /\ written = Undefined
    /\ reply = [p \in Procs |-> Undefined]

(***************************************************************************)
(* Pure functions of the token manager.                                    *)
(***************************************************************************)
\* isExpired with a strict comparison
isExpiredStrict(tokens, t) ==
    IF ~Truthy(tokens) \/ ~Truthy(Field(tokens, "expires_at")) THEN TRUE
    ELSE IF IsNum(tokens.expires_at)
         THEN t > tokens.expires_at.num - TOKEN_REFRESH_BUFFER_MS
         ELSE FALSE

\* isExpired(tokens) evaluated at time t
isExpired(tokens, t) ==
    IF ~Truthy(tokens) \/ ~Truthy(Field(tokens, "expires_at")) THEN TRUE
    ELSE IF IsNum(tokens.expires_at)
         THEN t >= tokens.expires_at.num - TOKEN_REFRESH_BUFFER_MS
         ELSE FALSE

\* the test both getAccessToken branches apply to a record
Usable(tokens, t) ==
    Truthy(tokens) /\ Truthy(Field(tokens, "access_token")) /\ ~isExpired(tokens, t)

\* the object setLastError stores
ErrorReason(code, statusCode, body) ==
    [code |-> code, statusCode |-> statusCode, rawBody |-> body]

\* new Error(message), with what the message embeds
Err(message, detail) == [message |-> message, detail |-> detail]

\* LoadOutcome without the access_token test of lines 85-93
LoadOutcomeNoAccessTokenCheck(content) ==
    IF IsReadError(content)
    THEN [tokens |-> Null,
          error |-> ErrorReason(IF content.fs = "ENOENT" THEN "TOKEN_FILE_MISSING"
                                ELSE "TOKEN_FILE_READ_ERROR", Undefined, Undefined)]
    ELSE IF ~IsJson(content)
    THEN [tokens |-> Null,
          error |-> ErrorReason("TOKEN_FILE_INVALID_JSON", Undefined, Undefined)]
    ELSE IF ~Truthy(Parse(content)) \/ ~IsObject(Parse(content))
    THEN [tokens |-> Null,
          error |-> ErrorReason("TOKEN_FILE_INVALID_SHAPE", Undefined, Undefined)]
    ELSE [tokens |-> Parse(content), error |-> Null]

\* the body of the in-flight load: what it returns and what it leaves in the
\* last-error slot, from the outcome of fs.readFile
LoadOutcome(content) ==
    IF IsReadError(content)
    THEN [tokens |-> Null,
          error |-> ErrorReason(IF content.fs = "ENOENT" THEN "TOKEN_FILE_MISSING"
                                ELSE "TOKEN_FILE_READ_ERROR", Undefined, Undefined)]
    ELSE IF ~IsJson(content)
    THEN [tokens |-> Null,
          error |-> ErrorReason("TOKEN_FILE_INVALID_JSON", Undefined, Undefined)]
    ELSE IF ~Truthy(Parse(content)) \/ ~IsObject(Parse(content))
    THEN [tokens |-> Null,
          error |-> ErrorReason("TOKEN_FILE_INVALID_SHAPE", Undefined, Undefined)]
    ELSE IF ~Truthy(Parse(content).access_token)
    THEN [tokens |-> Null,
          error |-> ErrorReason("TOKEN_FILE_INVALID_SHAPE", Undefined, Undefined)]
    ELSE [tokens |-> Parse(content), error |-> Null]

\* refreshToken after the direct read of the token file; a failed read, a
\* failed parse and a property access on null are all swallowed
DiskRefreshToken(content) ==
    IF IsJson(content) /\ Parse(content) # Null
    THEN Field(Parse(content), "refresh_token")
    ELSE Undefined

\* RefreshedTokens without lines 226-228: the old refresh token is not kept
RefreshedTokensNoPreserve(body, t, sent) ==
    [body EXCEPT !.expires_at = Plus(Num(t), Times1000(body.expires_in))]

\* newTokens after lines 222-228, from the parsed body, the time and the
\* refresh token that was sent
RefreshedTokens(body, t, sent) ==
    [body EXCEPT
        !.expires_at = Plus(Num(t), Times1000(body.expires_in)),
        !.refresh_token = IF ~Truthy(body.refresh_token) /\ Truthy(sent)
                          THEN sent ELSE body.refresh_token]

\* ExchangedTokens with expires_at counted from 0, not from Date.now()
ExchangedTokensNoClock(body, t) ==
    TokenObject(body.access_token, body.refresh_token, body.expires_in,
                Times1000(body.expires_in))

\* the record exchangeCodeForTokens builds from the parsed body
ExchangedTokens(body, t) ==
    TokenObject(body.access_token, body.refresh_token, body.expires_in,
                Plus(Num(t), Times1000(body.expires_in)))

(***************************************************************************)
(* Token-endpoint responses.                                               *)
(***************************************************************************)
\* the 2xx bodies the provider can send next
\* (a fresh access token each; with or without a rotated refresh token;
\* and one body that carries no token at all)
SuccessBodies ==
    {TokenObject(Str(AccessNames[issued + 1]), Str(RefreshNames[issued + 1]), LongLife, Undefined),
     TokenObject(Str(AccessNames[issued + 1]), Undefined, ShortLife, Undefined),
     TokenObject(Undefined, Undefined, Undefined, Undefined)}

\* non-2xx responses: a status and a body that is JSON with error and
\* error_description, or plain text
ErrorResponses ==
    {[status |-> 400,
      body |-> [error |-> Str("invalid_grant"), error_description |-> Str("Bad auth code")]],
     [status |-> 401,
      body |-> [error |-> Str("invalid_client"), error_description |-> Str("Bad secret")]],
     [status |-> 401,
      body |-> [error |-> Str("unauthorized_client"),
                error_description |-> Str("AADSTS7000215: Invalid client secret provided")]],
     [status |-> 503, body |-> [text |-> "Service Unavailable"]]}

IsJsonBody(body) == "error" \in DOMAIN body

\* a response text JSON.parse rejects
NotJson == [text |-> "<html>"]

\* what came back for a request: a response (res.statusCode and the text
\* received, here by what it parses to), or the 'error' event of the request
Response(status, body) == [status |-> status, body |-> body]
RequestError == [errno |-> "ECONNRESET"]
IsResponse(a) == "status" \in DOMAIN a

\* /invalid_client/i.test(s) || /AADSTS7000215/.test(s) on the strings above
MatchesInvalidClient(s) ==
    s \in {"invalid_client", "AADSTS7000215: Invalid client secret provided"}

\* the same test on the raw response text, which holds both fields
RawMatchesInvalidClient(body) ==
    IF IsJsonBody(body)
    THEN MatchesInvalidClient(body.error.str)
            \/ MatchesInvalidClient(body.error_description.str)
    ELSE MatchesInvalidClient(body.text)

\* parsedBody?.error_description || parsedBody?.error || data
RefreshErrorDescription(body) ==
    IF IsJsonBody(body)
    THEN (IF Truthy(body.error_description) THEN body.error_description ELSE body.error)
    ELSE Str(body.text)

\* RefreshErrorCode with the patterns tested on errorDescription instead of
\* the raw text
RefreshErrorCodeFromDescription(body) ==
    IF MatchesInvalidClient(RefreshErrorDescription(body).str)
    THEN "REFRESH_FAILED_INVALID_CLIENT"
    ELSE "REFRESH_FAILED"

RefreshErrorCode(body) ==
    IF RawMatchesInvalidClient(body) THEN "REFRESH_FAILED_INVALID_CLIENT"
    ELSE "REFRESH_FAILED"

\* responseBody.error_description || responseBody.error || a default text
ExchangeErrorDescription(body) ==
    IF Truthy(body.error_description) THEN body.error_description
    ELSE IF Truthy(body.error) THEN body.error
    ELSE Str("Token exchange failed with status")

\* in the code exchange the pattern is tested on errorDescription only
ExchangeErrorCode(body) ==
    IF MatchesInvalidClient(ExchangeErrorDescription(body).str)
    THEN "CODE_EXCHANGE_INVALID_CLIENT"
    ELSE "CODE_EXCHANGE_FAILED"

(***************************************************************************)
(* Steps shared by the calls.                                              *)
(***************************************************************************)
InFlight(q) == pc[q] \notin {"idle", "done"}

\* a call of an exported function starts; the calls are interchangeable, so
\* it takes the first free slot
Begin(p, o) ==
    /\ pc[p] = "idle"
    /\ \A q \in Procs : q < p => pc[q] # "idle"
    /\ calls < MaxCalls
    /\ calls' = calls + 1
    /\ op' = [op EXCEPT ![p] = o]
    /\ overlap' = [overlap EXCEPT ![p] = {q \in Procs \ {p} : InFlight(q)}]
    /\ cold' = [cold EXCEPT ![p] = ~Truthy(cachedTokens)]
    /\ alone' = [q \in Procs |-> q = p /\ \A r \in Procs \ {p} : ~InFlight(r)]

\* the calls in W settle: call q with R[q].oc and R[q].v
DoneStep(W, R) ==
    /\ pc' = [q \in Procs |-> IF q \in W THEN "done" ELSE pc[q]]
    /\ outcome' = [q \in Procs |-> IF q \in W THEN R[q].oc ELSE outcome[q]]
    /\ result' = [q \in Procs |-> IF q \in W THEN R[q].v ELSE result[q]]
    /\ ld' = [q \in Procs |-> IF q \in W THEN "none" ELSE ld[q]]
    /\ att' = [q \in Procs |-> IF q \in W THEN {} ELSE att[q]]
    /\ loaded' = [q \in Procs |-> IF q \in W THEN Undefined ELSE loaded[q]]
    /\ buf' = [q \in Procs |-> IF q \in W THEN Undefined ELSE buf[q]]
    /\ refreshToken' = [q \in Procs |-> IF q \in W THEN Undefined ELSE refreshToken[q]]
    /\ newTokens' = [q \in Procs |-> IF q \in W THEN Undefined ELSE newTokens[q]]
    /\ respBody' = [q \in Procs |-> IF q \in W THEN Undefined ELSE respBody[q]]
    /\ respAt' = [q \in Procs |-> IF q \in W THEN 0 ELSE respAt[q]]

Resolved(v) == [oc |-> "resolved", v |-> v]
Rejected(e) == [oc |-> "rejected", v |-> e]


(***************************************************************************)
(* loadTokens (lines 54-122).                                              *)
(***************************************************************************)
\* LoadTokensCall without the `if (_loadPromise) return _loadPromise` of line 57
LoadTokensCallNoGuard(p, where) ==
    /\ pc' = [pc EXCEPT ![p] = where]
    /\ att' = [att EXCEPT ![p] = {}]
    /\ IF Truthy(cachedTokens)
       THEN /\ ld' = [ld EXCEPT ![p] = "ready"]
            /\ loaded' = [loaded EXCEPT ![p] = cachedTokens]
            /\ UNCHANGED _loadPromise
       ELSE /\ ld' = [ld EXCEPT ![p] = "issued"]
            /\ loaded' = [loaded EXCEPT ![p] = Undefined]
            /\ _loadPromise' = {p}

\* the synchronous part of a loadTokens() call made by p, which then awaits
\* at position `where`: the cached record, the in-flight load, or a new read
LoadTokensCall(p, where) ==
    /\ pc' = [pc EXCEPT ![p] = where]
    /\ IF Truthy(cachedTokens)
       THEN /\ ld' = [ld EXCEPT ![p] = "ready"]
            /\ loaded' = [loaded EXCEPT ![p] = cachedTokens]
            /\ att' = [att EXCEPT ![p] = {}]
            /\ UNCHANGED _loadPromise
       ELSE IF _loadPromise # {}
       THEN /\ ld' = [ld EXCEPT ![p] = "attached"]
            /\ loaded' = [loaded EXCEPT ![p] = Undefined]
            /\ att' = [att EXCEPT ![p] = _loadPromise]
            /\ UNCHANGED _loadPromise
       ELSE /\ ld' = [ld EXCEPT ![p] = "issued"]
            /\ loaded' = [loaded EXCEPT ![p] = Undefined]
            /\ att' = [att EXCEPT ![p] = {}]
            /\ _loadPromise' = {p}

\* loadTokens() called from outside the module
CallLoadTokens(p) ==
    /\ Begin(p, "loadTokens")
    /\ IF Truthy(cachedTokens)
       THEN /\ DoneStep({p}, [q \in {p} |-> Resolved(cachedTokens)])
            /\ UNCHANGED _loadPromise
       ELSE /\ LoadTokensCall(p, "lt")
            /\ UNCHANGED <<buf, refreshToken, newTokens, respBody, respAt, outcome, result>>
    /\ UNCHANGED <<configured, file, cachedTokens, _refreshPromise, lastErrorReason,
                   now, issued, posted, arg, answer, written, reply>>

\* fs.readFile of the in-flight load reads the file (or fails)
LoadReadFile(p) ==
    /\ ld[p] = "issued"
    /\ ld' = [ld EXCEPT ![p] = "fetched"]
    /\ buf' = [buf EXCEPT ![p] = file]
    /\ UNCHANGED <<globals, pc, op, att, loaded, refreshToken, newTokens, respBody,
                   respAt, outcome, result, history>>

\* the calls that share the load p started
LoadWaiters(p) == {p} \cup {q \in Procs : ld[q] = "attached" /\ att[q] = {p}}

\* the read completes: the load classifies the content, fills the cache or
\* the last-error slot, clears the guard, and every call awaiting it gets
\* the same value
LoadSettle(p) ==
    /\ ld[p] = "fetched"
    /\ LET out == LoadOutcome(buf[p])
           W == LoadWaiters(p)
           direct == {q \in W : pc[q] = "lt"}
       IN /\ cachedTokens' = IF out.error = Null THEN out.tokens ELSE cachedTokens
          /\ lastErrorReason' = out.error
          /\ _loadPromise' = {}
          /\ pc' = [q \in Procs |-> IF q \in direct THEN "done" ELSE pc[q]]
          /\ outcome' = [q \in Procs |-> IF q \in direct THEN "resolved" ELSE outcome[q]]
          /\ result' = [q \in Procs |-> IF q \in direct THEN out.tokens ELSE result[q]]
          /\ ld' = [q \in Procs |-> IF q \in direct THEN "none"
                                    ELSE IF q \in W THEN "ready" ELSE ld[q]]
          /\ loaded' = [q \in Procs |-> IF q \in W \ direct THEN out.tokens ELSE loaded[q]]
          /\ att' = [q \in Procs |-> IF q \in W THEN {} ELSE att[q]]
          /\ buf' = [buf EXCEPT ![p] = Undefined]
    /\ UNCHANGED <<configured, file, _refreshPromise, now, issued, op, refreshToken,
                   newTokens, respBody, respAt, history>>

(***************************************************************************)
(* refreshAccessToken (lines 158-277).                                     *)
(***************************************************************************)
InRefresh(q) == op[q] \in {"refreshAccessToken", "getAccessToken"}

\* Settled without the try/catch of getAccessToken (lines 301-308)
SettledNoCatch(q, oc, v) ==
    IF op[q] = "getAccessToken" /\ oc = "resolved"
    THEN Resolved(Field(v, "access_token"))
    ELSE [oc |-> oc, v |-> v]

\* what a call gets from the refresh promise: refreshAccessToken's caller
\* gets its outcome, getAccessToken returns refreshed.access_token or, in
\* its catch, null (lines 301-308)
Settled(q, oc, v) ==
    IF op[q] = "getAccessToken"
    THEN (IF oc = "resolved" THEN Resolved(Field(v, "access_token")) ELSE Resolved(Null))
    ELSE [oc |-> oc, v |-> v]

\* RefreshEnter without the configuration check of lines 166-171
RefreshEnterNoConfigCheck(p) ==
    IF _refreshPromise # {}
    THEN /\ pc' = [pc EXCEPT ![p] = "rf_attached"]
         /\ att' = [att EXCEPT ![p] = _refreshPromise]
         /\ ld' = [ld EXCEPT ![p] = "none"]
         /\ loaded' = [loaded EXCEPT ![p] = Undefined]
         /\ UNCHANGED <<_loadPromise, lastErrorReason, buf, refreshToken, newTokens,
                        respBody, respAt, outcome, result>>
    ELSE /\ LoadTokensCall(p, "rf_load")
         /\ UNCHANGED <<lastErrorReason, buf, refreshToken, newTokens, respBody, respAt,
                        outcome, result>>

\* refreshAccessToken() up to its first await (lines 160-174)
RefreshEnter(p) ==
    IF _refreshPromise # {}
    THEN /\ pc' = [pc EXCEPT ![p] = "rf_attached"]
         /\ att' = [att EXCEPT ![p] = _refreshPromise]
         /\ ld' = [ld EXCEPT ![p] = "none"]
         /\ loaded' = [loaded EXCEPT ![p] = Undefined]
         /\ UNCHANGED <<_loadPromise, lastErrorReason, buf, refreshToken, newTokens,
                        respBody, respAt, outcome, result>>
    ELSE IF ~configured
    THEN /\ lastErrorReason' = ErrorReason("CLIENT_CONFIG_MISSING", Undefined, Undefined)
         /\ DoneStep({p}, [q \in {p} |-> Settled(q, "rejected",
                        Err("Client ID or Client Secret is not configured", Undefined))])
         /\ UNCHANGED _loadPromise
    ELSE /\ LoadTokensCall(p, "rf_load")
         /\ UNCHANGED <<lastErrorReason, buf, refreshToken, newTokens, respBody, respAt,
                        outcome, result>>

\* refreshAccessToken() called from outside the module
CallRefreshAccessToken(p) ==
    /\ Begin(p, "refreshAccessToken")
    /\ RefreshEnter(p)
    /\ UNCHANGED <<configured, file, cachedTokens, _refreshPromise, now, issued, posted,
                   arg, answer, written, reply>>

\* lines 192-276: the promise is created and stored, the request is sent
IssueRefreshRequest(p, rt) ==
    /\ pc' = [pc EXCEPT ![p] = "rf_post"]
    /\ refreshToken' = [refreshToken EXCEPT ![p] = rt]
    /\ _refreshPromise' = {p}
    /\ posted' = [posted EXCEPT ![p] = @ + 1]
    /\ ld' = [ld EXCEPT ![p] = "none"]
    /\ loaded' = [loaded EXCEPT ![p] = Undefined]
    /\ buf' = [buf EXCEPT ![p] = Undefined]

\* the calls that share the refresh promise p created
RefreshWaiters(p) == {p} \cup {q \in Procs : pc[q] = "rf_attached" /\ att[q] = {p}}

\* the promise p created settles; its finally clears the guard
RefreshSettle(p, oc, v) ==
    /\ _refreshPromise' = {}
    /\ DoneStep(RefreshWaiters(p), [q \in RefreshWaiters(p) |-> Settled(q, oc, v)])

\* RefreshAfterLoad without the direct re-read of lines 178-186
RefreshAfterLoadNoReread(p) ==
    /\ pc[p] = "rf_load"
    /\ ld[p] = "ready"
    /\ IF Truthy(Field(loaded[p], "refresh_token"))
       THEN /\ IssueRefreshRequest(p, Field(loaded[p], "refresh_token"))
            /\ UNCHANGED <<att, outcome, result, newTokens, respBody, respAt>>
       ELSE /\ DoneStep({p}, [q \in {p} |-> Settled(q, "rejected",
                                Err("No refresh token available", Undefined))])
            /\ UNCHANGED <<_refreshPromise, posted>>
    /\ UNCHANGED <<configured, file, cachedTokens, _loadPromise, lastErrorReason, now,
                   issued, op, calls, overlap, cold, alone, arg, answer, written, reply>>

\* the continuation after await loadTokens() (lines 177-190)
RefreshAfterLoad(p) ==
    /\ pc[p] = "rf_load"
    /\ ld[p] = "ready"
    /\ IF Truthy(Field(loaded[p], "refresh_token"))
       THEN /\ IssueRefreshRequest(p, Field(loaded[p], "refresh_token"))
            /\ UNCHANGED att
       ELSE /\ pc' = [pc EXCEPT ![p] = "rf_disk"]
            /\ ld' = [ld EXCEPT ![p] = "none"]
            /\ UNCHANGED <<_refreshPromise, posted, refreshToken, loaded, buf, att>>
    /\ UNCHANGED <<configured, file, cachedTokens, _loadPromise, lastErrorReason, now,
                   issued, op, newTokens, respBody, respAt, outcome, result, calls,
                   overlap, cold, alone, arg, answer, written, reply>>

\* the direct fs.readFile of line 180 reads the file (or fails)
RefreshReadFile(p) ==
    /\ pc[p] = "rf_disk"
    /\ pc' = [pc EXCEPT ![p] = "rf_disk_fetched"]
    /\ buf' = [buf EXCEPT ![p] = file]
    /\ UNCHANGED <<globals, op, ld, att, loaded, refreshToken, newTokens, respBody,
                   respAt, outcome, result, history>>

\* RefreshAfterDisk with the last-error slot cleared before the throw
RefreshAfterDiskClearsReason(p) ==
    /\ pc[p] = "rf_disk_fetched"
    /\ IF Truthy(DiskRefreshToken(buf[p]))
       THEN /\ IssueRefreshRequest(p, DiskRefreshToken(buf[p]))
            /\ UNCHANGED <<att, outcome, result, newTokens, respBody, respAt,
                           lastErrorReason>>
       ELSE /\ DoneStep({p}, [q \in {p} |-> Settled(q, "rejected",
                                Err("No refresh token available", Undefined))])
            /\ lastErrorReason' = Null
            /\ UNCHANGED <<_refreshPromise, posted>>
    /\ UNCHANGED <<configured, file, cachedTokens, _loadPromise, now,
                   issued, op, calls, overlap, cold, alone, arg, answer, written, reply>>

\* the continuation after the direct read (lines 181-190)
RefreshAfterDisk(p) ==
    /\ pc[p] = "rf_disk_fetched"
    /\ IF Truthy(DiskRefreshToken(buf[p]))
       THEN /\ IssueRefreshRequest(p, DiskRefreshToken(buf[p]))
            /\ UNCHANGED <<att, outcome, result, newTokens, respBody, respAt>>
       ELSE /\ DoneStep({p}, [q \in {p} |-> Settled(q, "rejected",
                                Err("No refresh token available", Undefined))])
            /\ UNCHANGED <<_refreshPromise, posted>>
    /\ UNCHANGED <<configured, file, cachedTokens, _loadPromise, lastErrorReason, now,
                   issued, op, calls, overlap, cold, alone, arg, answer, written, reply>>

\* res.on('end') with a 2xx status and a JSON object as body (lines 221-230):
\* the record is built and saveTokens starts its write
RefreshResponseOk(p) ==
    /\ pc[p] = "rf_post"
    /\ issued < Len(AccessNames)
    /\ \E body \in SuccessBodies :
        /\ respBody' = [respBody EXCEPT ![p] = body]
        /\ respAt' = [respAt EXCEPT ![p] = now]
        /\ newTokens' = [newTokens EXCEPT ![p] = RefreshedTokens(body, now, refreshToken[p])]
        /\ answer' = [answer EXCEPT ![p] = Response(200, body)]
    /\ issued' = issued + 1
    /\ pc' = [pc EXCEPT ![p] = "save_write"]
    /\ UNCHANGED <<configured, file, cachedTokens, _loadPromise, _refreshPromise,
                   lastErrorReason, now, op, ld, att, loaded, buf, refreshToken,
                   outcome, result, counters, arg, written, reply>>

\* a 2xx status with a body JSON.parse rejects (or null): line 259
RefreshResponseUnparsable(p) ==
    /\ pc[p] = "rf_post"
    /\ answer' = [answer EXCEPT ![p] = Response(200, NotJson)]
    /\ RefreshSettle(p, "rejected", Err("SyntaxError", Undefined))
    /\ UNCHANGED <<configured, file, cachedTokens, _loadPromise, lastErrorReason, now,
                   issued, op, counters, arg, written, reply>>

\* a non-2xx status (lines 233-257)
RefreshResponseError(p) ==
    /\ pc[p] = "rf_post"
    /\ \E r \in ErrorResponses :
        /\ answer' = [answer EXCEPT ![p] = Response(r.status, r.body)]
        /\ lastErrorReason' = ErrorReason(RefreshErrorCode(r.body), Num(r.status), r.body)
        /\ RefreshSettle(p, "rejected",
                Err("Token refresh failed with status",
                    <<r.status, RefreshErrorDescription(r.body)>>))
    /\ UNCHANGED <<configured, file, cachedTokens, _loadPromise, now, issued, op,
                   counters, arg, written, reply>>

\* RefreshNetworkError with a retry: the request is sent again
RefreshNetworkErrorRetry(p) ==
    /\ pc[p] = "rf_post"
    /\ lastErrorReason' = ErrorReason("REFRESH_NETWORK_ERROR", Undefined, Undefined)
    /\ posted' = [posted EXCEPT ![p] = @ + 1]
    /\ UNCHANGED <<configured, file, cachedTokens, _loadPromise, _refreshPromise, now,
                   issued, locals, calls, overlap, cold, alone, arg, answer, written, reply>>

\* req.on('error') (lines 264-268)
RefreshNetworkError(p) ==
    /\ pc[p] = "rf_post"
    /\ answer' = [answer EXCEPT ![p] = RequestError]
    /\ lastErrorReason' = ErrorReason("REFRESH_NETWORK_ERROR", Undefined, Undefined)
    /\ RefreshSettle(p, "rejected", Err("network error", Undefined))
    /\ UNCHANGED <<configured, file, cachedTokens, _loadPromise, now, issued, op,
                   counters, arg, written, reply>>

(***************************************************************************)
(* saveTokens (lines 128-140).                                             *)
(***************************************************************************)
\* WriteFile with the cache assigned before the write is awaited
WriteFileCacheFirst(p) ==
    /\ pc[p] = "save_write"
    /\ pc' = [pc EXCEPT ![p] = "save_written"]
    /\ cachedTokens' = newTokens[p]
    /\ \/ /\ file' = Stringify(newTokens[p])
          /\ written' = newTokens[p]
          /\ buf' = [buf EXCEPT ![p] = Str("ok")]
       \/ /\ file' = file
          /\ written' = written
          /\ buf' = [buf EXCEPT ![p] = Str("EIO")]
    /\ UNCHANGED <<configured, _loadPromise, _refreshPromise,
                   lastErrorReason, now, issued, op, ld, att, loaded, refreshToken,
                   newTokens, respBody, respAt, outcome, result, counters, arg, answer, reply>>

\* fs.writeFile takes effect: the file holds the new text, or the write
\* fails (the file cannot be opened for writing) and leaves it as it was
WriteFile(p) ==
    /\ pc[p] = "save_write"
    /\ pc' = [pc EXCEPT ![p] = "save_written"]
    /\ \/ /\ file' = Stringify(newTokens[p])
          /\ written' = newTokens[p]
          /\ buf' = [buf EXCEPT ![p] = Str("ok")]
       \/ /\ file' = file
          /\ written' = written
          /\ buf' = [buf EXCEPT ![p] = Str("EIO")]
    /\ UNCHANGED <<configured, cachedTokens, _loadPromise, _refreshPromise,
                   lastErrorReason, now, issued, op, ld, att, loaded, refreshToken,
                   newTokens, respBody, respAt, outcome, result, counters, arg, answer, reply>>

\* the continuation after await fs.writeFile (lines 136-139), and what the
\* caller of saveTokens does with its outcome
SaveDone(p) ==
    /\ pc[p] = "save_written"
    /\ IF buf[p] = Str("ok")
       THEN /\ cachedTokens' = newTokens[p]
            /\ lastErrorReason' = Null
            /\ IF InRefresh(p)
               THEN RefreshSettle(p, "resolved", newTokens[p])
               ELSE /\ DoneStep({p}, [q \in {p} |->
                            IF op[q] = "exchangeCodeForTokens"
                            THEN Resolved(newTokens[p]) ELSE Resolved(Undefined)])
                    /\ UNCHANGED _refreshPromise
       ELSE /\ UNCHANGED <<cachedTokens, lastErrorReason>>
            /\ IF InRefresh(p)
               THEN RefreshSettle(p, "rejected", Err("write failed", buf[p]))
               ELSE /\ DoneStep({p}, [q \in {p} |->
                            IF op[q] = "exchangeCodeForTokens"
                            THEN Rejected(Err("Error processing token response", buf[p]))
                            ELSE Rejected(Err("write failed", buf[p]))])
                    /\ UNCHANGED _refreshPromise
    /\ UNCHANGED <<configured, file, _loadPromise, now, issued, op, history>>

\* the records saveTokens is called with from outside the module
SaveInputs ==
    {Null,
     TokenObject(Str("a9"), Str("r9"), LongLife, Num(2 * TOKEN_REFRESH_BUFFER_MS)),
     TokenObject(Str("a9"), Undefined, Undefined, NaN)}

\* CallSaveTokens without the `if (!tokens)` of lines 129-132
CallSaveTokensNoNullCheck(p) ==
    /\ Begin(p, "saveTokens")
    /\ \E tokens \in SaveInputs :
        /\ arg' = [arg EXCEPT ![p] = tokens]
        /\ pc' = [pc EXCEPT ![p] = "save_write"]
        /\ newTokens' = [newTokens EXCEPT ![p] = tokens]
        /\ UNCHANGED <<ld, att, loaded, buf, refreshToken, respBody, respAt,
                       outcome, result>>
    /\ UNCHANGED <<globals, posted, answer, written, reply>>

\* saveTokens(tokens) called from outside the module
CallSaveTokens(p) ==
    /\ Begin(p, "saveTokens")
    /\ \E tokens \in SaveInputs :
        /\ arg' = [arg EXCEPT ![p] = tokens]
        /\ IF ~Truthy(tokens)
           THEN DoneStep({p}, [q \in {p} |-> Resolved(Undefined)])
           ELSE /\ pc' = [pc EXCEPT ![p] = "save_write"]
                /\ newTokens' = [newTokens EXCEPT ![p] = tokens]
                /\ UNCHANGED <<ld, att, loaded, buf, refreshToken, respBody, respAt,
                               outcome, result>>
    /\ UNCHANGED <<globals, posted, answer, written, reply>>

(***************************************************************************)
(* getAccessToken (lines 284-309).                                         *)
(***************************************************************************)
\* CallGetAccessToken without the cache check of lines 286-290
CallGetAccessTokenNoCache(p) ==
    /\ Begin(p, "getAccessToken")
    /\ LoadTokensCall(p, "ga_load")
    /\ UNCHANGED <<lastErrorReason, buf, refreshToken, newTokens, respBody,
                   respAt, outcome, result>>
    /\ UNCHANGED <<configured, file, cachedTokens, _refreshPromise, now, issued, posted,
                   arg, answer, written, reply>>

\* getAccessToken() up to its first await (lines 284-293)
GetAccessTokenEnter(p) ==
    /\ Begin(p, "getAccessToken")
    /\ IF Usable(cachedTokens, now)
       THEN /\ lastErrorReason' = Null
            /\ DoneStep({p}, [q \in {p} |-> Resolved(cachedTokens.access_token)])
            /\ UNCHANGED _loadPromise
       ELSE /\ LoadTokensCall(p, "ga_load")
            /\ UNCHANGED <<lastErrorReason, buf, refreshToken, newTokens, respBody,
                           respAt, outcome, result>>
    /\ UNCHANGED <<configured, file, cachedTokens, _refreshPromise, now, issued, posted,
                   answer, written>>

\* getAccessToken() called from outside the module
CallGetAccessToken(p) ==
    /\ GetAccessTokenEnter(p)
    /\ UNCHANGED <<arg, reply>>

\* the continuation after await loadTokens() (lines 294-302)
GetAfterLoad(p) ==
    /\ pc[p] = "ga_load"
    /\ ld[p] = "ready"
    /\ IF Usable(loaded[p], now)
       THEN /\ DoneStep({p}, [q \in {p} |-> Resolved(loaded[p].access_token)])
            /\ UNCHANGED <<_loadPromise, lastErrorReason>>
       ELSE RefreshEnter(p)
    /\ UNCHANGED <<configured, file, cachedTokens, _refreshPromise, now, issued, op,
                   history>>

(***************************************************************************)
(* exchangeCodeForTokens (lines 317-400).                                  *)
(***************************************************************************)
\* exchangeCodeForTokens(code) up to the request
\* exchangeCodeForTokens(code) up to the request (lines 317-352)
ExchangeEnter(p) ==
    /\ Begin(p, "exchangeCodeForTokens")
    /\ IF ~configured
       THEN /\ lastErrorReason' = ErrorReason("CLIENT_CONFIG_MISSING", Undefined, Undefined)
            /\ DoneStep({p}, [q \in {p} |->
                    Rejected(Err("Client ID or Client Secret is not configured", Undefined))])
            /\ UNCHANGED posted
       ELSE /\ pc' = [pc EXCEPT ![p] = "ex_post"]
            /\ posted' = [posted EXCEPT ![p] = @ + 1]
            /\ UNCHANGED <<lastErrorReason, ld, att, loaded, buf, refreshToken,
                           newTokens, respBody, respAt, outcome, result>>
    /\ UNCHANGED <<configured, file, cachedTokens, _loadPromise, _refreshPromise, now,
                   issued, answer, written>>

\* exchangeCodeForTokens(code) called from outside the routes
CallExchangeCodeForTokens(p) ==
    /\ ExchangeEnter(p)
    /\ UNCHANGED <<arg, reply>>

\* a 2xx status with a JSON object as body (lines 354-364)
ExchangeResponseOk(p) ==
    /\ pc[p] = "ex_post"
    /\ issued < Len(AccessNames)
    /\ \E body \in SuccessBodies :
        /\ respBody' = [respBody EXCEPT ![p] = body]
        /\ respAt' = [respAt EXCEPT ![p] = now]
        /\ newTokens' = [newTokens EXCEPT ![p] = ExchangedTokens(body, now)]
        /\ answer' = [answer EXCEPT ![p] = Response(200, body)]
    /\ issued' = issued + 1
    /\ pc' = [pc EXCEPT ![p] = "save_write"]
    /\ UNCHANGED <<configured, file, cachedTokens, _loadPromise, _refreshPromise,
                   lastErrorReason, now, op, ld, att, loaded, buf, refreshToken,
                   outcome, result, counters, arg, written, reply>>

\* a body JSON.parse rejects, whatever the status (line 386)
ExchangeResponseUnparsable(p) ==
    /\ pc[p] = "ex_post"
    /\ \E status \in {200, 502} :
        answer' = [answer EXCEPT ![p] = Response(status, NotJson)]
    /\ DoneStep({p}, [q \in {p} |-> Rejected(Err("Error processing token response", Undefined))])
    /\ UNCHANGED <<globals, op, counters, arg, written, reply>>

\* the reason the code exchange records: the parsed body is kept as `body`
ExchangeErrorReason(code, statusCode, body) ==
    [code |-> code, statusCode |-> statusCode, body |-> body]

\* a non-2xx status with a JSON body (lines 367-384)
ExchangeResponseError(p) ==
    /\ pc[p] = "ex_post"
    /\ \E r \in {e \in ErrorResponses : IsJsonBody(e.body)} :
        /\ answer' = [answer EXCEPT ![p] = Response(r.status, r.body)]
        /\ lastErrorReason' = ExchangeErrorReason(ExchangeErrorCode(r.body), Num(r.status), r.body)
        /\ DoneStep({p}, [q \in {p} |->
                Rejected(Err(ExchangeErrorDescription(r.body).str, Undefined))])
    /\ UNCHANGED <<configured, file, cachedTokens, _loadPromise, _refreshPromise, now,
                   issued, op, counters, arg, written, reply>>

\* ExchangeNetworkError that also drops the cached record
ExchangeNetworkErrorDropsCache(p) ==
    /\ pc[p] = "ex_post"
    /\ answer' = [answer EXCEPT ![p] = RequestError]
    /\ lastErrorReason' = ErrorReason("CODE_EXCHANGE_NETWORK_ERROR", Undefined, Undefined)
    /\ cachedTokens' = Null
    /\ DoneStep({p}, [q \in {p} |-> Rejected(Err("network error", Undefined))])
    /\ UNCHANGED <<configured, file, _loadPromise, _refreshPromise, now,
                   issued, op, counters, arg, written, reply>>

\* req.on('error') (lines 391-395)
ExchangeNetworkError(p) ==
    /\ pc[p] = "ex_post"
    /\ answer' = [answer EXCEPT ![p] = RequestError]
    /\ lastErrorReason' = ErrorReason("CODE_EXCHANGE_NETWORK_ERROR", Undefined, Undefined)
    /\ DoneStep({p}, [q \in {p} |-> Rejected(Err("network error", Undefined))])
    /\ UNCHANGED <<configured, file, cachedTokens, _loadPromise, _refreshPromise, now,
                   issued, op, counters, arg, written, reply>>

(***************************************************************************)
(* clearTokens (lines 405-417).                                            *)
(***************************************************************************)
\* clearTokens() up to await fs.unlink
CallClearTokens(p) ==
    /\ Begin(p, "clearTokens")
    /\ cachedTokens' = Null
    /\ pc' = [pc EXCEPT ![p] = "cl_unlink"]
    /\ UNCHANGED <<configured, file, _loadPromise, _refreshPromise, lastErrorReason,
                   now, issued, ld, att, loaded, buf, refreshToken, newTokens, respBody,
                   respAt, outcome, result, posted, arg, answer, written, reply>>

\* fs.unlink takes effect: the file is removed, was not there, or the
\* removal fails
Unlink(p) ==
    /\ pc[p] = "cl_unlink"
    /\ pc' = [pc EXCEPT ![p] = "cl_unlinked"]
    /\ IF file = FileAbsent
       THEN /\ buf' = [buf EXCEPT ![p] = Str("ENOENT")]
            /\ UNCHANGED <<file, written>>
       ELSE \/ /\ buf' = [buf EXCEPT ![p] = Str("ok")]
               /\ file' = FileAbsent
               /\ written' = Undefined
            \/ /\ buf' = [buf EXCEPT ![p] = Str("EPERM")]
               /\ UNCHANGED <<file, written>>
    /\ UNCHANGED <<configured, cachedTokens, _loadPromise, _refreshPromise,
                   lastErrorReason, now, issued, op, ld, att, loaded, refreshToken,
                   newTokens, respBody, respAt, outcome, result, counters, arg, answer, reply>>

\* ClearDone with the errors other than ENOENT thrown
ClearDoneThrows(p) ==
    /\ pc[p] = "cl_unlinked"
    /\ DoneStep({p}, [q \in {p} |->
            IF buf[p] = Str("EPERM") THEN Rejected(Err("unlink failed", buf[p]))
            ELSE Resolved(Undefined)])
    /\ UNCHANGED <<globals, op, history>>

\* the continuation after await fs.unlink: every outcome is only logged
ClearDone(p) ==
    /\ pc[p] = "cl_unlinked"
    /\ DoneStep({p}, [q \in {p} |-> Resolved(Undefined)])
    /\ UNCHANGED <<globals, op, history>>

(***************************************************************************)
(* loadTokenCacheSync (lines 424-465) and isExpired (lines 147-150), the   *)
(* exported functions that return without awaiting.                        *)
(***************************************************************************)
\* fsSync.existsSync(tokenPath): false for an absent file, true for one that
\* can be read; when reading fails for another reason the stat behind
\* existsSync succeeds (the file is there but cannot be opened) or fails (the
\* path cannot be searched), and existsSync reports false for every failure
ExistsSync(content) ==
    IF content = FileAbsent THEN {FALSE}
    ELSE IF IsReadError(content) THEN BOOLEAN
    ELSE {TRUE}

\* SyncLoadOutcome with a failing readFileSync recorded as a read error
SyncLoadOutcomeReadError(content, exists, reason) ==
    IF ~exists
    THEN [tokens |-> Null,
          error |-> ErrorReason("TOKEN_FILE_MISSING", Undefined, Undefined)]
    ELSE IF IsReadError(content)
    THEN [tokens |-> Null,
          error |-> ErrorReason("TOKEN_FILE_READ_ERROR", Undefined, Undefined)]
    ELSE IF ~IsJson(content)
    THEN [tokens |-> Null,
          error |-> ErrorReason("TOKEN_FILE_INVALID_JSON", Undefined, Undefined)]
    ELSE IF \/ ~Truthy(Parse(content))
            \/ ~IsObject(Parse(content))
            \/ ~Truthy(Parse(content).access_token)
    THEN [tokens |-> Null,
          error |-> ErrorReason("TOKEN_FILE_INVALID_SHAPE", Undefined, Undefined)]
    ELSE [tokens |-> Parse(content), error |-> Null]

\* what loadTokenCacheSync returns and what it leaves in the last-error
\* slot (reason is the slot's content at the call); a readFileSync that
\* throws lands in the outer catch, which records nothing
SyncLoadOutcome(content, exists, reason) ==
    IF ~exists
    THEN [tokens |-> Null,
          error |-> ErrorReason("TOKEN_FILE_MISSING", Undefined, Undefined)]
    ELSE IF IsReadError(content)
    THEN [tokens |-> Null, error |-> reason]
    ELSE IF ~IsJson(content)
    THEN [tokens |-> Null,
          error |-> ErrorReason("TOKEN_FILE_INVALID_JSON", Undefined, Undefined)]
    ELSE IF \/ ~Truthy(Parse(content))
            \/ ~IsObject(Parse(content))
            \/ ~Truthy(Parse(content).access_token)
    THEN [tokens |-> Null,
          error |-> ErrorReason("TOKEN_FILE_INVALID_SHAPE", Undefined, Undefined)]
    ELSE [tokens |-> Parse(content), error |-> Null]

\* loadTokenCacheSync(): one synchronous step
CallLoadTokenCacheSync(p) ==
    /\ Begin(p, "loadTokenCacheSync")
    /\ IF Truthy(cachedTokens)
       THEN /\ DoneStep({p}, [q \in {p} |-> Resolved(cachedTokens)])
            /\ UNCHANGED <<cachedTokens, lastErrorReason>>
       ELSE \E exists \in ExistsSync(file) :
            LET out == SyncLoadOutcome(file, exists, lastErrorReason)
            IN /\ cachedTokens' = IF out.tokens # Null THEN out.tokens ELSE cachedTokens
               /\ lastErrorReason' = out.error
               /\ DoneStep({p}, [q \in {p} |-> Resolved(out.tokens)])
    /\ UNCHANGED <<configured, file, _loadPromise, _refreshPromise, now, issued,
                   posted, arg, answer, written, reply>>

\* a JavaScript boolean
Bool(b) == [bool |-> b]

\* the records isExpired is called with from outside the module: none, one
\* without expires_at, one whose expires_at has no value, and records that
\* expire one millisecond inside the buffer, at its boundary and one
\* millisecond outside
IsExpiredInputs ==
    {Null}
        \cup {TokenObject(Str("a9"), Undefined, Undefined, e) :
                 e \in {Undefined, NaN,
                        Num(now + TOKEN_REFRESH_BUFFER_MS - 1),
                        Num(now + TOKEN_REFRESH_BUFFER_MS),
                        Num(now + TOKEN_REFRESH_BUFFER_MS + 1)}}

\* isExpired(tokens) called from outside the module
CallIsExpired(p) ==
    /\ Begin(p, "isExpired")
    /\ \E tokens \in IsExpiredInputs :
        /\ arg' = [arg EXCEPT ![p] = tokens]
        /\ DoneStep({p}, [q \in {p} |-> Resolved(Bool(isExpired(tokens, now)))])
    /\ UNCHANGED <<globals, posted, answer, written, reply>>

(***************************************************************************)
(* ensureAuthenticated and buildAuthError (auth/index.js, lines 12-79).    *)
(* The getAccessToken() call it makes is a call like any other; arg marks  *)
(* it as made by ensureAuthenticated and reply is what the wrapper gives.  *)
(***************************************************************************)
\* buildAuthError without the `|| 'AUTH_REQUIRED'` of line 54
buildAuthErrorNoDefault(reason) ==
    [isAuthError |-> TRUE,
     authReason |-> IF reason # Null THEN reason.code ELSE "",
     authDetails |-> IF reason # Null THEN reason ELSE Undefined]

\* the error buildAuthError() makes from the last error reason
buildAuthError(reason) ==
    [isAuthError |-> TRUE,
     authReason |-> IF reason # Null THEN reason.code ELSE "AUTH_REQUIRED",
     authDetails |-> IF reason # Null THEN reason ELSE Undefined]

ByEnsureAuthenticated(p) == "forceNew" \in DOMAIN arg[p]

\* ensureAuthenticated(forceNew) up to its first await
CallEnsureAuthenticated(p) ==
    \E forceNew \in BOOLEAN :
        /\ arg' = [arg EXCEPT ![p] = [forceNew |-> forceNew]]
        /\ IF forceNew
           THEN /\ Begin(p, "ensureAuthenticated")
                /\ DoneStep({p}, [q \in {p} |-> Rejected(buildAuthError(lastErrorReason))])
                /\ reply' = [reply EXCEPT ![p] = Rejected(buildAuthError(lastErrorReason))]
                /\ UNCHANGED <<globals, posted, answer, written>>
           ELSE /\ GetAccessTokenEnter(p)
                /\ UNCHANGED reply

\* the continuation after await tokenManager.getAccessToken() (lines 74-78)
EnsureAfterGet(p) ==
    /\ pc[p] = "done"
    /\ op[p] = "getAccessToken"
    /\ ByEnsureAuthenticated(p)
    /\ reply[p] = Undefined
    /\ reply' = [reply EXCEPT ![p] =
            IF outcome[p] = "rejected" THEN Rejected(result[p])
            ELSE IF Truthy(result[p]) THEN Resolved(result[p])
            ELSE Rejected(buildAuthError(lastErrorReason))]
    /\ UNCHANGED <<globals, locals, counters, arg, answer, written>>

(***************************************************************************)
(* The routes of the auth server (auth/oauth-server.js, lines 66-112).     *)
(***************************************************************************)
Http(status) == [http |-> status]

\* GET /auth: the state is drawn at random and kept nowhere (line 75)
IssuedState == Str("s1")

\* only the client id matters to the route; with both id and secret
\* configured it is set, otherwise it may or may not be
CallAuth(p) ==
    /\ Begin(p, "auth")
    /\ \E r \in IF configured THEN {[http |-> 302, state |-> IssuedState]}
                ELSE {[http |-> 302, state |-> IssuedState], Http(500)} :
        reply' = [reply EXCEPT ![p] = r]
    /\ DoneStep({p}, [q \in {p} |-> Resolved(Undefined)])
    /\ UNCHANGED <<globals, posted, arg, answer, written>>

\* the query parameters GET /auth/callback is called with
Query(state, error, code) == [state |-> state, error |-> error, code |-> code]

CallbackQueries ==
    {Query(Undefined, Str("access_denied"), Str("c1")),
     Query(Str(""), Undefined, Str("c1")),
     Query(Str("forged"), Str("access_denied"), Str("c1")),
     Query(Str("forged"), Undefined, Undefined),
     Query(Str("forged"), Undefined, Str("c1"))}

ByAuthCallback(p) == "code" \in DOMAIN arg[p]

\* CallAuthCallback with the state compared with the one GET /auth issued
CallAuthCallbackChecksState(p) ==
    \E query \in CallbackQueries :
        /\ arg' = [arg EXCEPT ![p] = query]
        /\ IF query.state # IssuedState \/ Truthy(query.error) \/ ~Truthy(query.code)
           THEN /\ Begin(p, "authCallback")
                /\ DoneStep({p}, [q \in {p} |-> Resolved(Undefined)])
                /\ reply' = [reply EXCEPT ![p] = Http(400)]
                /\ UNCHANGED <<globals, posted, answer, written>>
           ELSE /\ ExchangeEnter(p)
                /\ UNCHANGED reply

\* GET /auth/callback up to its await (lines 89-107)
CallAuthCallback(p) ==
    \E query \in CallbackQueries :
        /\ arg' = [arg EXCEPT ![p] = query]
        /\ IF ~Truthy(query.state) \/ Truthy(query.error) \/ ~Truthy(query.code)
           THEN /\ Begin(p, "authCallback")
                /\ DoneStep({p}, [q \in {p} |-> Resolved(Undefined)])
                /\ reply' = [reply EXCEPT ![p] = Http(400)]
                /\ UNCHANGED <<globals, posted, answer, written>>
           ELSE /\ ExchangeEnter(p)
                /\ UNCHANGED reply

\* the continuation after await exchangeCodeForTokens(code) (lines 107-111)
CallbackAfterExchange(p) ==
    /\ pc[p] = "done"
    /\ op[p] = "exchangeCodeForTokens"
    /\ ByAuthCallback(p)
    /\ reply[p] = Undefined
    /\ reply' = [reply EXCEPT ![p] =
            IF outcome[p] = "resolved" THEN Http(200) ELSE Http(500)]
    /\ UNCHANGED <<globals, locals, counters, arg, answer, written>>

\* a call made by a wrapper: ensureAuthenticated or a route
Wrapped(p) == ByEnsureAuthenticated(p) \/ ByAuthCallback(p)

(***************************************************************************)
(* The environment.                                                        *)
(***************************************************************************)
\* Return for a caller that can drop a call that has not settled
ReturnOrAbort(p) ==
    /\ pc[p] # "idle"
    /\ pc' = [pc EXCEPT ![p] = "idle"]
    /\ op' = [op EXCEPT ![p] = "none"]
    /\ outcome' = [outcome EXCEPT ![p] = "pending"]
    /\ result' = [result EXCEPT ![p] = Undefined]
    /\ posted' = [posted EXCEPT ![p] = 0]
    /\ overlap' = [q \in Procs |-> IF q = p THEN {} ELSE overlap[q] \ {p}]
    /\ cold' = [cold EXCEPT ![p] = FALSE]
    /\ alone' = [alone EXCEPT ![p] = FALSE]
    /\ arg' = [arg EXCEPT ![p] = Undefined]
    /\ answer' = [answer EXCEPT ![p] = Undefined]
    /\ reply' = [reply EXCEPT ![p] = Undefined]
    /\ UNCHANGED <<globals, ld, att, loaded, buf, refreshToken, newTokens, respBody,
                   respAt, calls, written>>

\* the caller has its result; p can run another call
Return(p) ==
    /\ pc[p] = "done"
    /\ Wrapped(p) => reply[p] # Undefined
    /\ pc' = [pc EXCEPT ![p] = "idle"]
    /\ op' = [op EXCEPT ![p] = "none"]
    /\ outcome' = [outcome EXCEPT ![p] = "pending"]
    /\ result' = [result EXCEPT ![p] = Undefined]
    /\ posted' = [posted EXCEPT ![p] = 0]
    /\ overlap' = [q \in Procs |-> IF q = p THEN {} ELSE overlap[q] \ {p}]
    /\ cold' = [cold EXCEPT ![p] = FALSE]
    /\ alone' = [alone EXCEPT ![p] = FALSE]
    /\ arg' = [arg EXCEPT ![p] = Undefined]
    /\ answer' = [answer EXCEPT ![p] = Undefined]
    /\ reply' = [reply EXCEPT ![p] = Undefined]
    /\ UNCHANGED <<globals, ld, att, loaded, buf, refreshToken, newTokens, respBody,
                   respAt, calls, written>>

\* the process ends between two calls and a new one starts: the module
\* state is what lines 19-26 set, the token file is what the old process left
Restart ==
    /\ calls > 0
    /\ calls < MaxCalls
    /\ \A p \in Procs : ~InFlight(p) /\ (Wrapped(p) => reply[p] # Undefined)
    /\ cachedTokens' = Null
    /\ _loadPromise' = {}
    /\ _refreshPromise' = {}
    /\ lastErrorReason' = Null
    /\ pc' = [p \in Procs |-> "idle"]
    /\ op' = [p \in Procs |-> "none"]
    /\ outcome' = [p \in Procs |-> "pending"]
    /\ result' = [p \in Procs |-> Undefined]
    /\ posted' = [p \in Procs |-> 0]
    /\ overlap' = [p \in Procs |-> {}]
    /\ cold' = [p \in Procs |-> FALSE]
    /\ alone' = [p \in Procs |-> FALSE]
    /\ arg' = [p \in Procs |-> Undefined]
    /\ answer' = [p \in Procs |-> Undefined]
    /\ reply' = [p \in Procs |-> Undefined]
    /\ UNCHANGED <<configured, file, now, issued, calls, written, ld, att, loaded, buf,
                   refreshToken, newTokens, respBody, respAt>>

Tick ==
    /\ now < MaxTicks * TOKEN_REFRESH_BUFFER_MS
    /\ now' = now + TOKEN_REFRESH_BUFFER_MS
    /\ UNCHANGED <<configured, file, cachedTokens, _loadPromise, _refreshPromise,
                   lastErrorReason, issued, locals, history>>

Next ==
    \/ Tick
    \/ Restart
    \/ \E p \in Procs :
        \/ CallLoadTokens(p)
        \/ LoadReadFile(p)
        \/ LoadSettle(p)
        \/ CallRefreshAccessToken(p)
        \/ RefreshAfterLoad(p)
        \/ RefreshReadFile(p)
        \/ RefreshAfterDisk(p)
        \/ RefreshResponseOk(p)
        \/ RefreshResponseUnparsable(p)
        \/ RefreshResponseError(p)
        \/ RefreshNetworkError(p)
        \/ WriteFile(p)
        \/ SaveDone(p)
        \/ CallSaveTokens(p)
        \/ CallGetAccessToken(p)
        \/ GetAfterLoad(p)
        \/ CallExchangeCodeForTokens(p)
        \/ ExchangeResponseOk(p)
        \/ ExchangeResponseUnparsable(p)
        \/ ExchangeResponseError(p)
        \/ ExchangeNetworkError(p)
        \/ CallClearTokens(p)
        \/ Unlink(p)
        \/ ClearDone(p)
        \/ CallLoadTokenCacheSync(p)
        \/ CallIsExpired(p)
        \/ CallEnsureAuthenticated(p)
        \/ EnsureAfterGet(p)
        \/ CallAuth(p)
        \/ CallAuthCallback(p)
        \/ CallbackAfterExchange(p)
        \/ Return(p)

Spec == Init /\ [][Next]_vars

\* the steps of call p that are not the caller's: a file operation or a
\* request completes (or errors) and the continuation that awaits it runs
Continue(p) ==
    \/ LoadReadFile(p)
    \/ LoadSettle(p)
    \/ RefreshAfterLoad(p)
    \/ RefreshReadFile(p)
    \/ RefreshAfterDisk(p)
    \/ RefreshResponseOk(p)
    \/ RefreshResponseUnparsable(p)
    \/ RefreshResponseError(p)
    \/ RefreshNetworkError(p)
    \/ WriteFile(p)
    \/ SaveDone(p)
    \/ GetAfterLoad(p)
    \/ ExchangeResponseOk(p)
    \/ ExchangeResponseUnparsable(p)
    \/ ExchangeResponseError(p)
    \/ ExchangeNetworkError(p)
    \/ Unlink(p)
    \/ ClearDone(p)
    \/ EnsureAfterGet(p)
    \/ CallbackAfterExchange(p)

\* the event loop runs every continuation that is ready, and every file
\* operation and request completes or errors
\* the calls the liveness of the token manager is about, with
\* exchangeCodeForTokens and clearTokens as the calls that fill and empty
\* the cache under them
LiveNext ==
    \/ Tick
    \/ \E p \in Procs :
        \/ CallLoadTokens(p)
        \/ LoadReadFile(p)
        \/ LoadSettle(p)
        \/ CallRefreshAccessToken(p)
        \/ RefreshAfterLoad(p)
        \/ RefreshReadFile(p)
        \/ RefreshAfterDisk(p)
        \/ RefreshResponseOk(p)
        \/ RefreshResponseUnparsable(p)
        \/ RefreshResponseError(p)
        \/ RefreshNetworkError(p)
        \/ WriteFile(p)
        \/ SaveDone(p)
        \/ CallGetAccessToken(p)
        \/ GetAfterLoad(p)
        \/ CallExchangeCodeForTokens(p)
        \/ ExchangeResponseOk(p)
        \/ ExchangeResponseUnparsable(p)
        \/ ExchangeResponseError(p)
        \/ ExchangeNetworkError(p)
        \/ CallClearTokens(p)
        \/ Unlink(p)
        \/ ClearDone(p)
        \/ Return(p)

FairSpec == Init /\ [][LiveNext]_vars /\ \A p \in Procs : WF_vars(Continue(p))

(***************************************************************************)
(* Properties.                                                             *)
(***************************************************************************)
Started(p, o) == pc[p] = "idle" /\ pc'[p] # "idle" /\ op'[p] = o
Finishes(p) == pc[p] # "done" /\ pc'[p] = "done"
Saving(p) == pc[p] \in {"save_write", "save_written"}
NoRefreshToken == Err("No refresh token available", Undefined)

\* q was still in flight when p started: the two calls overlap
Overlapping(p, q) == p # q /\ q \in overlap[p]

\* C1: refreshAccessToken() calls started before any of them has settled
\* cause one POST to the token endpoint between them, never two.
C1_OneRequestPerBatch ==
    \A p, q \in Procs :
        (Overlapping(p, q) /\ op[p] = "refreshAccessToken" /\ op[q] = "refreshAccessToken")
            => posted[p] + posted[q] <= 1

\* C2: refreshAccessToken() callers that overlap observe the identical
\* outcome: the same record or the same rejection, never two different
\* access tokens.
C2_SameOutcome ==
    \A p, q \in Procs :
        (Overlapping(p, q) /\ op[p] = "refreshAccessToken" /\ op[q] = "refreshAccessToken"
            /\ pc[p] = "done" /\ pc[q] = "done")
            => outcome[p] = outcome[q] /\ result[p] = result[q]

\* C3: loadTokens() calls issued against an empty cache while a load is in
\* flight share one read of the token file (at most one read by loadTokens is
\* ever outstanding) and every one of them receives the same result.
C3_LoadDedup ==
    /\ Cardinality({p \in Procs : ld[p] \in {"issued", "fetched"}}) <= 1
    /\ \A p, q \in Procs :
        (Overlapping(p, q) /\ op[p] = "loadTokens" /\ op[q] = "loadTokens"
            /\ cold[p] /\ cold[q] /\ pc[p] = "done" /\ pc[q] = "done")
            => /\ outcome[p] = "resolved" /\ outcome[q] = "resolved"
               /\ result[p] = result[q]

\* two overlapping loadTokens() calls against an empty cache have both
\* returned the record of the file
C3_Witness ==
    \E p, q \in Procs :
        /\ Overlapping(p, q) /\ op[p] = "loadTokens" /\ op[q] = "loadTokens"
        /\ cold[p] /\ cold[q] /\ pc[p] = "done" /\ pc[q] = "done"
        /\ IsObject(result[p]) /\ result[q] = result[p]

\* C4 as stated: while a saveTokens is between the start of its file write
\* and its cache update, no other operation takes a step.
C4_SaveRunsToCompletion ==
    [][\A p \in Procs : Saving(p) =>
            \A q \in Procs \ {p} : pc'[q] = pc[q] /\ ld'[q] = ld[q]]_vars

\* C4 as amended: saveTokens leaves the cache and the last-error slot alone
\* while its write is in flight; the step that runs after the write sets
\* the cache to the written record and clears the last error if the write
\* succeeded, and changes neither if it failed.
C4_CacheAfterWrite ==
    [][\A p \in Procs :
        /\ (pc[p] = "save_write" /\ pc'[p] # pc[p])
            => /\ cachedTokens' = cachedTokens
               /\ lastErrorReason' = lastErrorReason
               /\ pc'[p] = "save_written"
        /\ (pc[p] = "save_written" /\ pc'[p] # pc[p])
            => /\ pc'[p] = "done"
               /\ IF buf[p] = Str("ok")
                  THEN cachedTokens' = newTokens[p] /\ lastErrorReason' = Null
                  ELSE /\ cachedTokens' = cachedTokens
                       /\ lastErrorReason' = lastErrorReason
                       /\ (outcome'[p] = "rejected" \/ op[p] = "getAccessToken")]_vars

\* a write has put the new record in the file, the cache still holds
\* something else, and another call is running
C4_Witness ==
    \E p, q \in Procs :
        /\ p # q /\ pc[p] = "save_written" /\ buf[p] = Str("ok")
        /\ file = Stringify(newTokens[p]) /\ cachedTokens # newTokens[p]
        /\ InFlight(q) /\ q \notin overlap[p]

\* C5: when the cache holds a record with an access_token and
\* now < expires_at - buffer, getAccessToken() returns the cached access_token
\* at once, starts no file read and no request, and leaves the last error null.
C5_CachedTokenFastPath ==
    [][\A p \in Procs :
        (/\ Started(p, "getAccessToken")
         /\ IsObject(cachedTokens)
         /\ Truthy(cachedTokens.access_token)
         /\ IsNum(cachedTokens.expires_at)
         /\ now < cachedTokens.expires_at.num - TOKEN_REFRESH_BUFFER_MS)
        => /\ pc'[p] = "done"
           /\ outcome'[p] = "resolved"
           /\ result'[p] = cachedTokens.access_token
           /\ lastErrorReason' = Null
           /\ ld'[p] = "none"
           /\ UNCHANGED <<file, cachedTokens, _loadPromise, _refreshPromise, posted>>]_vars

\* a getAccessToken() that found a fresh record in the cache has returned it
C5_Witness ==
    \E p \in Procs :
        /\ op[p] = "getAccessToken" /\ pc[p] = "done" /\ ~cold[p] /\ posted[p] = 0
        /\ IsObject(cachedTokens) /\ ~isExpired(cachedTokens, now)
        /\ result[p] = cachedTokens.access_token
        /\ lastErrorReason = Null

\* C6: when a getAccessToken() call returns, it returns a string access
\* token, or null with a non-null structured reason in the last-error slot.
C6_NullHasReason ==
    [][\A p \in Procs :
        (Finishes(p) /\ op[p] = "getAccessToken")
        => \/ IsStr(result'[p])
           \/ result'[p] = Null /\ lastErrorReason' # Null]_vars

C8_NoRetry ==
    /\ \A p \in Procs : posted[p] <= 1
    /\ \A p \in Procs : pc[p] \in {"rf_post", "ex_post"} => posted[p] = 1

\* a getAccessToken() has returned null after its one request failed at
\* transport level
C8_Witness ==
    \E p \in Procs :
        /\ op[p] = "getAccessToken" /\ pc[p] = "done" /\ posted[p] = 1
        /\ result[p] = Null
        /\ lastErrorReason # Null /\ lastErrorReason.code = "REFRESH_NETWORK_ERROR"

\* C9: the record a successful refresh saves has the server's new
\* refresh_token if the response carries one and the one that was sent
\* otherwise, and expires_at = response time + expires_in * 1000; it is the
\* record written to the file, cached and returned, and it always has a
\* refresh_token.
C9_RefreshedRecord ==
    [][\A p \in Procs : (InRefresh(p) /\ Saving(p)) =>
        /\ newTokens[p].refresh_token =
            (IF Truthy(respBody[p].refresh_token) THEN respBody[p].refresh_token
             ELSE refreshToken[p])
        /\ Truthy(newTokens[p].refresh_token)
        /\ newTokens[p].expires_at = Plus(Num(respAt[p]), Times1000(respBody[p].expires_in))
        /\ newTokens[p].access_token = respBody[p].access_token
        /\ (pc[p] = "save_write" /\ pc'[p] = "save_written" /\ buf'[p] = Str("ok"))
            => file' = Stringify(newTokens[p])
        /\ (pc[p] = "save_written" /\ buf[p] = Str("ok") /\ pc'[p] # pc[p])
            => /\ cachedTokens' = newTokens[p]
               /\ outcome'[p] = "resolved"
               /\ op[p] = "refreshAccessToken" => result'[p] = newTokens[p]]_vars

\* a refresh whose response carried no refresh_token has written a record
\* that keeps the one that was sent
C9_Witness ==
    \E p \in Procs :
        /\ op[p] = "refreshAccessToken" /\ pc[p] = "save_written" /\ buf[p] = Str("ok")
        /\ ~Truthy(respBody[p].refresh_token)
        /\ newTokens[p].refresh_token = refreshToken[p]
        /\ newTokens[p].expires_at = Num(respAt[p] + TOKEN_REFRESH_BUFFER_MS)

\* the content of the token file has a refresh_token
HasRefreshToken(content) ==
    IsJson(content) /\ IsObject(content.json) /\ Truthy(content.json.refresh_token)

\* C10: refreshAccessToken() sends the refresh_token of the record
\* loadTokens() returned; if that has none it re-reads the token file and
\* sends the refresh_token found there; it rejects with 'No refresh token
\* available', without a request, exactly when neither has one.
C10_RefreshTokenSource ==
    [][\A p \in Procs :
        /\ (pc[p] = "rf_load" /\ pc'[p] # pc[p]) =>
            IF Truthy(Field(loaded[p], "refresh_token"))
            THEN /\ pc'[p] = "rf_post"
                 /\ refreshToken'[p] = loaded[p].refresh_token
            ELSE pc'[p] = "rf_disk"
        /\ (pc[p] = "rf_disk_fetched" /\ pc'[p] # pc[p]) =>
            IF HasRefreshToken(buf[p])
            THEN /\ pc'[p] = "rf_post"
                 /\ refreshToken'[p] = buf[p].json.refresh_token
            ELSE /\ pc'[p] = "done"
                 /\ posted'[p] = 0
                 /\ op[p] = "refreshAccessToken" =>
                        outcome'[p] = "rejected" /\ result'[p] = NoRefreshToken
        /\ (Finishes(p) /\ outcome'[p] = "rejected" /\ result'[p] = NoRefreshToken) =>
            /\ pc[p] = "rf_disk_fetched"
            /\ ~Truthy(Field(loaded[p], "refresh_token"))
            /\ ~HasRefreshToken(buf[p])]_vars

\* a refreshAccessToken() has rejected with 'No refresh token available'
\* without sending a request
C10_Witness ==
    \E p \in Procs :
        /\ op[p] = "refreshAccessToken" /\ pc[p] = "done" /\ outcome[p] = "rejected"
        /\ result[p] = NoRefreshToken /\ posted[p] = 0

\* no call was in flight when p started and none has started since
Alone(p) == alone[p]

\* the last-error slot holds a reason with this code
ReasonCode(reason, code) == reason # Null /\ reason.code = code

\* the raw text of a response holds invalid_client or AADSTS7000215
MentionsInvalidClient(body) ==
    /\ IsJsonBody(body)
    /\ \/ body.error = Str("invalid_client")
       \/ body.error_description = Str("AADSTS7000215: Invalid client secret provided")

\* C11: when the token endpoint answers a refresh with a non-2xx status the
\* call rejects and the last-error slot holds REFRESH_FAILED_INVALID_CLIENT
\* if the body holds invalid_client or AADSTS7000215 and REFRESH_FAILED
\* otherwise, with the status code and the raw body; when the request fails
\* at transport level the slot holds REFRESH_NETWORK_ERROR.
C11_RefreshFailureCodes ==
    [][\A p \in Procs :
        (pc[p] = "rf_post" /\ answer'[p] # answer[p]) =>
            /\ (IsResponse(answer'[p]) /\ answer'[p].status \notin 200..299) =>
                /\ pc'[p] = "done"
                /\ op[p] = "refreshAccessToken" => outcome'[p] = "rejected"
                /\ ReasonCode(lastErrorReason',
                              IF MentionsInvalidClient(answer'[p].body)
                              THEN "REFRESH_FAILED_INVALID_CLIENT"
                              ELSE "REFRESH_FAILED")
                /\ lastErrorReason'.statusCode = Num(answer'[p].status)
                /\ lastErrorReason'.rawBody = answer'[p].body
            /\ (answer'[p] = RequestError) =>
                /\ pc'[p] = "done"
                /\ op[p] = "refreshAccessToken" => outcome'[p] = "rejected"
                /\ ReasonCode(lastErrorReason', "REFRESH_NETWORK_ERROR")]_vars

\* a refreshAccessToken() was answered 401 invalid_client and has rejected
C11_Witness ==
    \E p \in Procs :
        /\ op[p] = "refreshAccessToken" /\ pc[p] = "done" /\ outcome[p] = "rejected"
        /\ IsResponse(answer[p]) /\ answer[p].status = 401
        /\ answer[p].body.error = Str("invalid_client")
        /\ ReasonCode(lastErrorReason, "REFRESH_FAILED_INVALID_CLIENT")
        /\ lastErrorReason.rawBody = answer[p].body

\* C12: when the client id or secret is not configured, refreshAccessToken()
\* and exchangeCodeForTokens() reject at once with the last-error code
\* CLIENT_CONFIG_MISSING, and no token-endpoint request is ever issued.
C12_ConfigMissing ==
    [][~configured =>
        /\ \A p \in Procs : posted'[p] = 0
        /\ \A p \in Procs :
            (Started(p, "refreshAccessToken") \/ Started(p, "exchangeCodeForTokens")) =>
                /\ pc'[p] = "done"
                /\ outcome'[p] = "rejected"
                /\ ReasonCode(lastErrorReason', "CLIENT_CONFIG_MISSING")
                /\ UNCHANGED <<file, cachedTokens, _loadPromise, _refreshPromise>>]_vars

\* a refreshAccessToken() without client credentials has rejected
C12_Witness ==
    \E p \in Procs :
        /\ ~configured /\ op[p] = "refreshAccessToken" /\ pc[p] = "done"
        /\ outcome[p] = "rejected" /\ posted[p] = 0
        /\ ReasonCode(lastErrorReason, "CLIENT_CONFIG_MISSING")

\* the code a load records for what it read: "none" for a record that is accepted
FileStateCode(content) ==
    IF content = FileAbsent THEN "TOKEN_FILE_MISSING"
    ELSE IF content = FileUnreadable THEN "TOKEN_FILE_READ_ERROR"
    ELSE IF content = FileInvalidJson THEN "TOKEN_FILE_INVALID_JSON"
    ELSE IF ~IsObject(content.json) THEN "TOKEN_FILE_INVALID_SHAPE"
    ELSE IF content.json.access_token = Undefined THEN "TOKEN_FILE_INVALID_SHAPE"
    ELSE "none"

\* C13: a loadTokens() read that finds the file absent, unreadable, not
\* JSON, not an object or without access_token returns null to every caller
\* that shares it, records the code of that file state, and leaves the cache
\* as it is.
C13_LoadClassification ==
    [][\A p \in Procs :
        (ld[p] = "fetched" /\ ld'[p] # "fetched" /\ FileStateCode(buf[p]) # "none") =>
            /\ ReasonCode(lastErrorReason', FileStateCode(buf[p]))
            /\ cachedTokens' = cachedTokens
            /\ \A q \in Procs :
                (pc[q] = "lt" /\ (q = p \/ att[q] = {p})) =>
                    /\ pc'[q] = "done"
                    /\ outcome'[q] = "resolved"
                    /\ result'[q] = Null]_vars

\* a loadTokens() against an empty cache has returned null for a file whose
\* object has no access_token
C13_Witness ==
    \E p \in Procs :
        /\ op[p] = "loadTokens" /\ pc[p] = "done" /\ cold[p] /\ result[p] = Null
        /\ IsJson(file) /\ IsObject(file.json) /\ file.json.access_token = Undefined
        /\ ReasonCode(lastErrorReason, "TOKEN_FILE_INVALID_SHAPE")
        /\ cachedTokens = Null

\* C14: whenever loadTokens() returns a record, the last-error slot is null
\* when the call returns.
C14_LoadClearsError ==
    [][\A p \in Procs :
        (Finishes(p) /\ op'[p] = "loadTokens" /\ result'[p] # Null)
            => lastErrorReason' = Null]_vars

\* C15 as stated: with an empty cache, loadTokenCacheSync() returns what
\* loadTokens() returns for the same file, and leaves the same cache and the
\* same last error.
C15_SyncEquivalent ==
    [][\A p \in Procs :
        (Started(p, "loadTokenCacheSync") /\ cachedTokens = Null) =>
            /\ result'[p] = LoadOutcome(file).tokens
            /\ cachedTokens' = LoadOutcome(file).tokens
            /\ lastErrorReason' = LoadOutcome(file).error]_vars

\* C15 as amended: the two agree for a file that is absent or can be read;
\* for a file that cannot be read for another reason loadTokenCacheSync()
\* returns null, leaves the cache empty, and leaves the last error as it was
\* or sets TOKEN_FILE_MISSING, never TOKEN_FILE_READ_ERROR.
C15_SyncEquivalentIfReadable ==
    [][\A p \in Procs :
        (Started(p, "loadTokenCacheSync") /\ cachedTokens = Null) =>
            IF file = FileUnreadable
            THEN /\ result'[p] = Null
                 /\ cachedTokens' = Null
                 /\ \/ lastErrorReason' = lastErrorReason
                    \/ ReasonCode(lastErrorReason', "TOKEN_FILE_MISSING")
            ELSE /\ result'[p] = LoadOutcome(file).tokens
                 /\ cachedTokens' = LoadOutcome(file).tokens
                 /\ lastErrorReason' = LoadOutcome(file).error]_vars

\* a loadTokenCacheSync() against an empty cache and an unreadable file has
\* returned null and recorded nothing
C15_Witness ==
    \E p \in Procs :
        /\ op[p] = "loadTokenCacheSync" /\ pc[p] = "done" /\ cold[p] /\ Alone(p)
        /\ file = FileUnreadable /\ result[p] = Null /\ lastErrorReason = Null

\* C16 as stated: with an empty cache and the token file absent,
\* getAccessToken() returns null and the last-error code is
\* TOKEN_FILE_MISSING when it returns.
C16_MissingFileReason ==
    \A p \in Procs :
        (pc[p] = "done" /\ op[p] = "getAccessToken" /\ cold[p] /\ Alone(p)
            /\ file = FileAbsent)
        => result[p] = Null /\ ReasonCode(lastErrorReason, "TOKEN_FILE_MISSING")

\* C16 as amended: the same for a process whose client id and secret are
\* configured; without them the code is CLIENT_CONFIG_MISSING.
C16_MissingFileReasonIfConfigured ==
    \A p \in Procs :
        (pc[p] = "done" /\ op[p] = "getAccessToken" /\ cold[p] /\ Alone(p)
            /\ file = FileAbsent)
        => /\ result[p] = Null
           /\ ReasonCode(lastErrorReason,
                         IF configured THEN "TOKEN_FILE_MISSING"
                         ELSE "CLIENT_CONFIG_MISSING")

\* a getAccessToken() of a configured process has returned null for an
\* absent file
C16_Witness ==
    \E p \in Procs :
        /\ configured /\ pc[p] = "done" /\ op[p] = "getAccessToken" /\ cold[p]
        /\ Alone(p) /\ file = FileAbsent /\ result[p] = Null
        /\ ReasonCode(lastErrorReason, "TOKEN_FILE_MISSING")

\* C17 as stated: clearTokens() never throws, and once it has completed the
\* cache is empty and the token file is gone.
C17_ClearRemovesFile ==
    \A p \in Procs :
        (pc[p] = "done" /\ op[p] = "clearTokens" /\ Alone(p))
        => outcome[p] = "resolved" /\ cachedTokens = Null /\ file = FileAbsent

\* C17 as amended: clearTokens() never throws; run on its own it leaves the
\* cache empty, and the file absent when the unlink succeeded or found no
\* file, but still in place when the unlink failed for another reason; a
\* loadTokens() run on its own against an absent file returns null with
\* TOKEN_FILE_MISSING.
C17_ClearBestEffort ==
    [][\A p \in Procs :
        /\ (pc[p] = "cl_unlinked" /\ pc'[p] # pc[p]) =>
            /\ pc'[p] = "done"
            /\ outcome'[p] = "resolved"
            /\ Alone(p) =>
                /\ cachedTokens' = Null
                /\ buf[p] \in {Str("ok"), Str("ENOENT")} => file' = FileAbsent
                /\ buf[p] = Str("EPERM") => file' # FileAbsent
        /\ (Finishes(p) /\ op[p] = "loadTokens" /\ cold[p] /\ Alone(p)
                /\ file = FileAbsent) =>
            /\ result'[p] = Null
            /\ ReasonCode(lastErrorReason', "TOKEN_FILE_MISSING")]_vars

\* a clearTokens() run on its own has completed and the file is still there
C17_Witness ==
    \E p \in Procs :
        /\ pc[p] = "done" /\ op[p] = "clearTokens" /\ Alone(p)
        /\ outcome[p] = "resolved" /\ cachedTokens = Null /\ IsJson(file)

\* C18: saveTokens(null) returns at once: no file write, and the cache and
\* the last-error slot are as they were.
C18_SaveNullNoOp ==
    [][\A p \in Procs :
        (Started(p, "saveTokens") /\ arg'[p] = Null) =>
            /\ pc'[p] = "done"
            /\ outcome'[p] = "resolved"
            /\ UNCHANGED <<file, written, cachedTokens, lastErrorReason>>]_vars

\* saveTokens(null) has returned with a record in the cache and a reason in
\* the last-error slot
C18_Witness ==
    \E p \in Procs :
        /\ op[p] = "saveTokens" /\ pc[p] = "done" /\ arg[p] = Null
        /\ cachedTokens # Null /\ lastErrorReason # Null

\* C19: a loadTokens() run on its own against an empty cache, reading the
\* file a saveTokens(T) wrote, returns a record equal to T and leaves the
\* last-error slot null.
C19_RoundTrip ==
    [][\A p \in Procs :
        (/\ pc[p] = "lt" /\ ld[p] = "fetched" /\ Finishes(p)
         /\ cold[p] /\ Alone(p)
         /\ written # Undefined /\ buf[p] = Stringify(written))
        => result'[p] = written /\ lastErrorReason' = Null]_vars

\* expires_at has no value: absent, null or NaN
NoValue(v) == v \in {Undefined, Null, NaN}

\* C20: isExpired(record) is true exactly when record is null, expires_at
\* is missing, or now >= expires_at - buffer: true at
\* now = expires_at - buffer, false at now = expires_at - buffer - 1.
C20_IsExpiredBoundary ==
    [][\A p \in Procs :
        Started(p, "isExpired") =>
            /\ pc'[p] = "done"
            /\ result'[p] =
                Bool(\/ arg'[p] = Null
                     \/ NoValue(arg'[p].expires_at)
                     \/ now >= arg'[p].expires_at.num - TOKEN_REFRESH_BUFFER_MS)
            /\ (arg'[p] # Null /\ arg'[p].expires_at = Num(now + TOKEN_REFRESH_BUFFER_MS))
                => result'[p] = Bool(TRUE)
            /\ (arg'[p] # Null /\ arg'[p].expires_at = Num(now + TOKEN_REFRESH_BUFFER_MS + 1))
                => result'[p] = Bool(FALSE)]_vars

\* isExpired has returned false for a record one millisecond outside the
\* buffer, after the clock has advanced
C20_Witness ==
    \E p \in Procs :
        /\ op[p] = "isExpired" /\ pc[p] = "done" /\ now > 0
        /\ arg[p] # Null
        /\ arg[p].expires_at = Num(now + TOKEN_REFRESH_BUFFER_MS + 1)
        /\ result[p] = Bool(FALSE)

\* C21: in every reachable state the cache slot is null or holds a record
\* whose access_token is a non-empty string.  The code breaks this: a 2xx
\* response without access_token is saved and cached as it is.
C21_CacheHoldsAccessToken ==
    \/ cachedTokens = Null
    \/ /\ IsObject(cachedTokens)
       /\ IsStr(cachedTokens.access_token)
       /\ cachedTokens.access_token.str # ""

\* the calls of exchangeCodeForTokens, from outside or from the callback route
Exchanging(p) == op[p] = "exchangeCodeForTokens"

\* C22: on a 2xx response exchangeCodeForTokens builds a fresh record with
\* expires_at = response time + expires_in * 1000, writes it to the token
\* file, makes it the cache, clears the last error, and resolves with that
\* record only after the write and the cache update.
C22_ExchangeSuccess ==
    [][\A p \in Procs : Exchanging(p) =>
        /\ (pc[p] = "ex_post" /\ pc'[p] = "save_write") =>
            LET body == answer'[p].body IN
            /\ answer'[p].status = 200
            /\ newTokens'[p].access_token = body.access_token
            /\ newTokens'[p].refresh_token = body.refresh_token
            /\ newTokens'[p].expires_in = body.expires_in
            /\ newTokens'[p].expires_at =
                (IF IsNum(body.expires_in) THEN Num(now + body.expires_in.num * 1000)
                 ELSE NaN)
        /\ (pc[p] = "save_write" /\ pc'[p] = "save_written" /\ buf'[p] = Str("ok"))
            => file' = Stringify(newTokens[p])
        /\ InFlight(p) => outcome[p] = "pending"
        /\ (Finishes(p) /\ outcome'[p] = "resolved") =>
            /\ pc[p] = "save_written" /\ buf[p] = Str("ok")
            /\ cachedTokens' = newTokens[p]
            /\ lastErrorReason' = Null
            /\ result'[p] = newTokens[p]]_vars

\* an exchange has resolved at a later time than 0 with the record that is
\* in the cache and in the file
C22_Witness ==
    \E p \in Procs :
        /\ Exchanging(p) /\ pc[p] = "done" /\ outcome[p] = "resolved"
        /\ now > 0
        /\ IsNum(result[p].expires_at)
        /\ result[p].expires_at.num = now + result[p].expires_in.num * 1000
        /\ cachedTokens = result[p]
        /\ file = Stringify(result[p])
        /\ lastErrorReason = Null

\* C23: when the token endpoint answers a code exchange with a non-2xx
\* status the call rejects with the provider's description and the
\* last-error slot holds CODE_EXCHANGE_INVALID_CLIENT if the response carries
\* the invalid_client pattern and CODE_EXCHANGE_FAILED otherwise, with the
\* status code; on transport failure it holds CODE_EXCHANGE_NETWORK_ERROR.
\* The code breaks this for a body whose error is invalid_client while its
\* description is not, and for an error body that is not JSON.
C23_ExchangeFailureCodes ==
    [][\A p \in Procs :
        (pc[p] = "ex_post" /\ answer'[p] # answer[p]) =>
            /\ (IsResponse(answer'[p]) /\ answer'[p].status \notin 200..299) =>
                /\ pc'[p] = "done"
                /\ outcome'[p] = "rejected"
                /\ ReasonCode(lastErrorReason',
                              IF MentionsInvalidClient(answer'[p].body)
                              THEN "CODE_EXCHANGE_INVALID_CLIENT"
                              ELSE "CODE_EXCHANGE_FAILED")
                /\ lastErrorReason'.statusCode = Num(answer'[p].status)
            /\ (answer'[p] = RequestError) =>
                /\ pc'[p] = "done"
                /\ outcome'[p] = "rejected"
                /\ ReasonCode(lastErrorReason', "CODE_EXCHANGE_NETWORK_ERROR")]_vars

\* GET /auth/callback is entered by p in this step
CallbackStarts(p) == pc[p] = "idle" /\ pc'[p] # "idle" /\ "code" \in DOMAIN arg'[p]

\* C24: GET /auth/callback calls exchangeCodeForTokens exactly when the
\* request has a non-empty state, no error and a code; the state is tested
\* for presence only.  Otherwise it answers 400 and touches nothing; after
\* the exchange it answers 200 if the exchange resolved and 500 if it
\* rejected.
C24_CallbackRoute ==
    [][\A p \in Procs :
        /\ CallbackStarts(p) =>
            LET query == arg'[p]
                go == /\ query.state \notin {Undefined, Str("")}
                      /\ query.error = Undefined
                      /\ query.code # Undefined
            IN  /\ (op'[p] = "exchangeCodeForTokens") <=> go
                /\ go => reply'[p] = Undefined
                /\ ~go => /\ op'[p] = "authCallback"
                          /\ pc'[p] = "done"
                          /\ reply'[p] = Http(400)
                          /\ posted'[p] = 0
                          /\ UNCHANGED globals
        /\ (ByAuthCallback(p) /\ reply[p] = Undefined /\ reply'[p] # Undefined) =>
            /\ op[p] = "exchangeCodeForTokens" /\ pc[p] = "done"
            /\ reply'[p] = Http(IF outcome[p] = "resolved" THEN 200 ELSE 500)]_vars

\* a callback with a state GET /auth never issued has exchanged its code
\* and answered 200
C24_Witness ==
    \E p \in Procs :
        /\ ByAuthCallback(p) /\ arg[p].state = Str("forged")
        /\ arg[p].state # IssuedState
        /\ reply[p] = Http(200)
        /\ outcome[p] = "resolved"
        /\ posted[p] = 1

\* ensureAuthenticated(forceNew) is entered by p in this step
EnsureStarts(p, forceNew) ==
    pc[p] = "idle" /\ pc'[p] # "idle" /\ arg'[p] = [forceNew |-> forceNew]

\* e is an auth error whose authReason is the code of the reason, or
\* 'AUTH_REQUIRED' when none is recorded
IsAuthErrorFor(e, reason) ==
    /\ "isAuthError" \in DOMAIN e
    /\ e.isAuthError
    /\ e.authReason = (IF reason = Null THEN "AUTH_REQUIRED" ELSE reason.code)

\* C25: ensureAuthenticated() returns the access token when getAccessToken()
\* yields one and otherwise throws an auth error whose authReason is the code
\* of the last error reason, or 'AUTH_REQUIRED' when there is none;
\* ensureAuthenticated(true) throws such an error without calling
\* getAccessToken() and without changing cache, file or error slot.
C25_EnsureAuthenticated ==
    [][\A p \in Procs :
        /\ EnsureStarts(p, TRUE) =>
            /\ op'[p] = "ensureAuthenticated"
            /\ pc'[p] = "done"
            /\ reply'[p].oc = "rejected"
            /\ IsAuthErrorFor(reply'[p].v, lastErrorReason)
            /\ posted'[p] = 0
            /\ UNCHANGED <<cachedTokens, file, lastErrorReason, _loadPromise, _refreshPromise>>
        /\ EnsureStarts(p, FALSE) =>
            /\ op'[p] = "getAccessToken"
            /\ reply'[p] = Undefined
        /\ (ByEnsureAuthenticated(p) /\ reply[p] = Undefined /\ reply'[p] # Undefined) =>
            /\ op[p] = "getAccessToken" /\ pc[p] = "done"
            /\ IF IsStr(result[p]) /\ result[p].str # ""
               THEN reply'[p] = Resolved(result[p])
               ELSE /\ reply'[p].oc = "rejected"
                    /\ IsAuthErrorFor(reply'[p].v, lastErrorReason)]_vars

\* an ensureAuthenticated() whose getAccessToken() gave null has thrown the
\* code of the recorded reason, and an ensureAuthenticated(true) has thrown
\* AUTH_REQUIRED
C25_Witness ==
    /\ \E p \in Procs :
        /\ arg[p] = [forceNew |-> FALSE] /\ reply[p] # Undefined
        /\ result[p] = Null
        /\ reply[p].oc = "rejected"
        /\ lastErrorReason # Null
        /\ reply[p].v.authReason = lastErrorReason.code
    /\ \E p \in Procs :
        /\ arg[p] = [forceNew |-> TRUE]
        /\ reply[p].oc = "rejected"
        /\ reply[p].v.authReason = "AUTH_REQUIRED"

\* no call is in flight
Quiescent == \A p \in Procs : ~InFlight(p)

\* C26: whenever no call is in flight the cache slot is null or equal to the
\* record in the token file.  The code breaks this: a loadTokens() that read
\* the file before a save (or a clear) completed stores what it read when
\* it settles, over the newer cache.
C26_CacheMatchesFile ==
    Quiescent => (cachedTokens = Null \/ file = Stringify(cachedTokens))

\* every call other than p that is in flight, before or after the step, is
\* a load or a refresh that was already in flight when p was called: no
\* call has started since
OnlyOlderCalls(p) ==
    \A q \in Procs \ {p} :
        (InFlight(q) \/ InFlight(q)') =>
            q \in overlap[p] /\ op[q] \in {"loadTokens", "refreshAccessToken"}

\* C27: once clearTokens() has completed with a successful deletion the
\* cache stays null and the token file stays absent until a new call is
\* started; calls that were in flight when clearTokens() was called neither
\* repopulate the cache nor rewrite the file.  The code breaks this: a
\* load or a refresh in flight across the clear stores what it holds.
C27_ClearIsFinal ==
    [][\A p \in Procs :
        (/\ op[p] = "clearTokens" /\ pc[p] = "done" /\ pc'[p] = "done"
         /\ cachedTokens = Null /\ file = FileAbsent
         /\ OnlyOlderCalls(p))
        => (cachedTokens' = Null /\ file' = FileAbsent)]_vars

\* a refresh request is outstanding, or its response is being saved: the
\* promise a refresh created has not settled
RefreshPending ==
    \E p \in Procs : InRefresh(p) /\ pc[p] \in {"rf_post", "save_write", "save_written"}

\* a read of the token file started by loadTokens has not settled
LoadPending == \E p \in Procs : ld[p] \in {"issued", "fetched"}

\* C28: _refreshPromise is non-null exactly while a refresh is outstanding,
\* _loadPromise is non-null exactly while a read started by loadTokens is
\* outstanding, and both are null when no call is in flight.  The code
\* breaks this: of two refreshes that both issued a request, the first to
\* settle clears the guard while the other request is still outstanding.
C28_GuardsExact ==
    /\ (_refreshPromise # {}) <=> RefreshPending
    /\ (_loadPromise # {}) <=> LoadPending
    /\ Quiescent => (_refreshPromise = {} /\ _loadPromise = {})

\* a refreshAccessToken() or exchangeCodeForTokens() call of p rejects in
\* this step
RejectsNow(p) ==
    /\ Finishes(p)
    /\ op'[p] \in {"refreshAccessToken", "exchangeCodeForTokens"}
    /\ outcome'[p] = "rejected"

\* C29 as stated: a refreshAccessToken() or exchangeCodeForTokens() call
\* that rejects leaves the cache slot holding exactly what it held before
\* the call (here: a call run alone that started with an empty cache).
C29_CacheAsBeforeCall ==
    [][\A p \in Procs :
        (RejectsNow(p) /\ Alone(p)' /\ cold'[p]) => cachedTokens' = Null]_vars

\* C29, amended: the step in which a refresh or an exchange rejects assigns
\* nothing to the cache, and a failed write makes saveTokens reject without
\* touching cache or last-error slot.  Run alone, a rejecting exchange
\* leaves the cache as it was at the call; so does a rejecting refresh,
\* except that its loadTokens() may have filled an empty cache with the
\* valid record of the token file.
C29_ErrorKeepsCache ==
    [][\A p \in Procs :
        /\ RejectsNow(p) => cachedTokens' = cachedTokens
        /\ (pc[p] = "save_written" /\ buf[p] # Str("ok") /\ pc'[p] # pc[p]) =>
            /\ cachedTokens' = cachedTokens
            /\ lastErrorReason' = lastErrorReason
            /\ op[p] \in {"saveTokens", "refreshAccessToken", "exchangeCodeForTokens"}
                => outcome'[p] = "rejected"
        /\ (RejectsNow(p) /\ Alone(p)' /\ cold'[p]) =>
            IF op'[p] = "exchangeCodeForTokens"
            THEN cachedTokens' = Null
            ELSE cachedTokens' \in {Null, LoadOutcome(file).tokens}
        /\ (Alone(p) /\ Alone(p)' /\ InFlight(p) /\ cachedTokens # Null
            /\ op[p] \in {"refreshAccessToken", "exchangeCodeForTokens"}
            /\ cachedTokens' # cachedTokens) =>
                /\ pc[p] = "save_written" /\ buf[p] = Str("ok")
                /\ outcome'[p] = "resolved"]_vars

\* a refreshAccessToken() run alone from an empty cache has rejected and the
\* cache holds the record its loadTokens() read from the file
C29_Witness ==
    \E p \in Procs :
        /\ op[p] = "refreshAccessToken" /\ pc[p] = "done" /\ outcome[p] = "rejected"
        /\ Alone(p) /\ cold[p]
        /\ cachedTokens # Null
        /\ cachedTokens = LoadOutcome(file).tokens

\* C30: under fair scheduling, with every file operation and request
\* completing or failing, every getAccessToken(), loadTokens(),
\* refreshAccessToken() and exchangeCodeForTokens() call settles, callers
\* attached to a shared load or refresh included; a refresh
\* or an exchange that has started is never aborted: it leaves the flight
\* only by settling.
C30_EveryCallSettles ==
    /\ \A p \in Procs :
        (InFlight(p) /\ op[p] \in {"getAccessToken", "loadTokens", "refreshAccessToken",
                                    "exchangeCodeForTokens"})
            ~> (pc[p] = "done")
    /\ [][\A p \in Procs :
            (InFlight(p) /\ op[p] \in {"refreshAccessToken", "exchangeCodeForTokens"})
                => (pc'[p] # "idle" /\ op'[p] = op[p])]_vars

\* a refreshAccessToken() that issued no request of its own has resolved:
\* it was attached to the refresh of another call
C30_Witness ==
    \E p \in Procs :
        /\ op[p] = "refreshAccessToken" /\ pc[p] = "done" /\ outcome[p] = "resolved"
        /\ posted[p] = 0

====
